---- MODULE Spec2Model ----
(***************************************************************************)
(* Credential registry and issuance coordination of lukso_dapp:            *)
(* src/src/contexts/ContractContext.tsx (the ContractContextProvider       *)
(* operations and the CertificateSearch component) over the two ledger     *)
(* contracts (UserRegistry, CertificateNFT) and the IPFS gateways.         *)
(*                                                                         *)
(* Every client operation is one action that runs the whole handler; what  *)
(* the environment answers (an RPC read failing, a gateway response, the   *)
(* wallet refusing a transaction) is an input of the action.  The outcome  *)
(* of the last operation is kept in `last` so that properties can speak    *)
(* about what the caller observed.                                         *)
(***************************************************************************)
EXTENDS Integers, Sequences, FiniteSets, TLC

VARIABLES
    provider,               \* useEthereum().provider is set (BOOLEAN)
    account,                \* useEthereum().account: an address string or Null
    signer,                 \* the address provider.getSigner() signs with, or Null
    userRegistryAddress,    \* NEXT_PUBLIC_CONTRACT_ADDRESS || ''
    certificateNFTAddress,  \* NEXT_PUBLIC_CERTIFICATE_NFT_ADDRESS || ''
    registry,               \* UserRegistry: sequence of [address, role, metadataHash]
    owner,                  \* CertificateNFT.owner()
    authorizedInstitutes,   \* CertificateNFT.authorizedInstitutes, as a set
    requestCounter,         \* CertificateNFT.requestCounter()
    certificateRequests,    \* CertificateNFT.certificateRequests: id -> request
    cancelDeletes,          \* whether cancelCertificateRequest deletes the record
    certificates,           \* CertificateNFT: sequence of minted certificates
    authorizedBucket,       \* what the last fetchAuthorizedProviders returned
    pendingBucket,          \* what the last fetchPendingProviders returned
    userData,               \* useState<UserData | null>: the cached identity
    loading,                \* useState<boolean>
    ipfs,                   \* the content store: the content identifiers it holds
    inflight,               \* the get that is awaiting a gateway, step by step
    storedAccount,          \* localStorage 'ethereumAccount', or Null
    verified,               \* useState<boolean>: signed in with Ethereum
    verifiedFor,            \* the account whose signature set verified, or Null
    refreshes,              \* the accounts of the fetchUserData calls in flight
    signIns,                \* the accounts of the signInWithEthereum calls in flight
    last                    \* the last client operation and what its caller saw

walletVars == <<provider, account, signer>>
configVars == <<userRegistryAddress, certificateNFTAddress>>
registryVars == <<registry>>
authVars == <<owner, authorizedInstitutes>>
requestVars == <<requestCounter, certificateRequests, cancelDeletes, certificates>>
bucketVars == <<authorizedBucket, pendingBucket>>
viewVars == <<userData, loading>>
storeVars == <<ipfs>>
gatewayVars == <<inflight>>
sessionVars == <<verified, verifiedFor, refreshes, signIns>>
vars == <<walletVars, configVars, registryVars, authVars, requestVars,
          bucketVars, viewVars, storeVars, gatewayVars, storedAccount,
          sessionVars, last>>

Null == "null"

(***************************************************************************)
(* Addresses.  The ledger hands addresses out in checksum case; a wallet   *)
(* or local storage may hold the same address in lower case.               *)
(***************************************************************************)
Addresses == {"0xOwner", "0xAA", "0xBB", "0xCC"}
ZeroAddress == "0x00"
LowerAddresses == {"0xowner", "0xaa", "0xbb", "0xcc"}
AddressStrings == Addresses \cup LowerAddresses

\* String.prototype.toLowerCase on the strings of the model
ToLowerCase(s) ==
    CASE s = "0xOwner" -> "0xowner"
      [] s = "0xAA" -> "0xaa"
      [] s = "0xBB" -> "0xbb"
      [] s = "0xCC" -> "0xcc"
      [] s = "Provider" -> "provider"
      [] s = "Student" -> "student"
      [] s = "S100" -> "s100"
      [] s = "S200" -> "s200"
      [] s = "S999" -> "s999"
      [] OTHER -> s

\* the ledger's reading of an address argument: hex digits are case-insensitive
Canon(s) ==
    CASE ToLowerCase(s) = "0xowner" -> "0xOwner"
      [] ToLowerCase(s) = "0xaa" -> "0xAA"
      [] ToLowerCase(s) = "0xbb" -> "0xBB"
      [] ToLowerCase(s) = "0xcc" -> "0xCC"
      [] OTHER -> s

Range(f) == {f[i] : i \in DOMAIN f}

RECURSIVE SelectSeqBy(_, _)
\* Array.prototype.filter with the predicate given as the set of kept elements
SelectSeqBy(s, keep) ==
    IF s = <<>> THEN <<>>
    ELSE IF Head(s) \in keep THEN <<Head(s)>> \o SelectSeqBy(Tail(s), keep)
         ELSE SelectSeqBy(Tail(s), keep)

(***************************************************************************)
(* UserRegistry reads.                                                     *)
(***************************************************************************)
\* getUser(address) -> (role, metadataHash); empty strings when unregistered
GetUser(a) ==
    IF \E i \in DOMAIN registry : registry[i].address = Canon(a)
    THEN LET i == CHOOSE i \in DOMAIN registry : registry[i].address = Canon(a)
         IN  [role |-> registry[i].role, metadataHash |-> registry[i].metadataHash]
    ELSE [role |-> "", metadataHash |-> ""]

\* isUserRegistered(address)
IsUserRegistered(a) == \E i \in DOMAIN registry : registry[i].address = Canon(a)

\* getContract(provider): null without a provider or a configured address
GetContract == provider /\ userRegistryAddress # ""

\* getCertificateContract(provider)
GetCertificateContract == provider /\ certificateNFTAddress # ""

\* getAllRegisteredUsers(): throws without provider or contract, or when a
\* registry read fails (readOk = FALSE); otherwise every user, in ledger order
GetAllRegisteredUsers(readOk) ==
    IF ~provider THEN [ok |-> FALSE, users |-> <<>>]
    ELSE IF ~GetContract THEN [ok |-> FALSE, users |-> <<>>]
    ELSE IF ~readOk THEN [ok |-> FALSE, users |-> <<>>]
    ELSE [ok |-> TRUE,
          users |-> [i \in DOMAIN registry |->
                       [address |-> registry[i].address,
                        role |-> GetUser(registry[i].address).role,
                        metadataHash |-> GetUser(registry[i].address).metadataHash]]]

(***************************************************************************)
(* CertificateNFT: the authorization list.  The contract's code is not     *)
(* part of the sources; its rule is the documented one: only the recorded  *)
(* owner may authorize or revoke an institute.                             *)
(***************************************************************************)
\* the ledger accepts authorizeInstitute / revokeInstitute from `sender`
LedgerAcceptsAuthorization(sender) == sender = owner

\* authorizedInstitutes after an accepted authorizeInstitute(target)
LedgerAuthorize(target) == authorizedInstitutes \cup {Canon(target)}

\* authorizedInstitutes after an accepted revokeInstitute(target)
LedgerRevoke(target) == authorizedInstitutes \ {Canon(target)}

\* what `await contract.method(...); await tx.wait()` can come to:
\* "mined": included and confirmed; "rejected": the wallet or the node refused
\* it, nothing was submitted; "unconfirmed": submitted and included, but
\* tx.wait() threw
TxOutcomes == {"mined", "rejected", "unconfirmed"}

(***************************************************************************)
(* The write handlers' common tail:                                        *)
(*     const tx = await contract.method(...); await tx.wait();             *)
(***************************************************************************)
\* AwaitTx gone wrong: a rejection is caught and the handler returns normally
AwaitTxSwallowed(accepted, txOutcome) == "ok"

\* what the handler ends with: any rejection propagates to the caller
AwaitTx(accepted, txOutcome) ==
    IF txOutcome = "rejected" THEN "TransactionFailed"
    ELSE IF ~accepted THEN "TransactionFailed"
    ELSE IF txOutcome = "unconfirmed" THEN "TransactionFailed"
    ELSE "ok"

\* Submissions gone wrong: a transaction that was not mined is sent again
SubmissionsRetried(gate, txOutcome) ==
    IF gate # "submit" THEN 0 ELSE IF txOutcome = "mined" THEN 1 ELSE 2

\* how many transactions the handler sends: one call of the contract method,
\* which sends nothing when the wallet rejects it, and no second call
Submissions(gate, txOutcome) ==
    IF gate = "submit" /\ txOutcome # "rejected" THEN 1 ELSE 0

\* what became of the handler's transaction ("none": the handler threw before)
TxSeen(gate, txOutcome) == IF gate = "submit" THEN txOutcome ELSE "none"

\* the transaction reached the ledger and was executed
TxApplied(accepted, txOutcome) == accepted /\ txOutcome # "rejected"

\* WriteGate gone wrong: the wallet check is missing
WriteGateNoWalletCheck ==
    IF signer = Null THEN "SignerUnavailable"
    ELSE IF certificateNFTAddress = "" THEN "ContractCallFailed"
    ELSE "submit"

\* if (!provider || !account) throw; const signer = await provider.getSigner();
\* new ethers.Contract(certificateNFTAddress, abi, signer)
WriteGate ==
    IF ~provider \/ account = Null THEN "WalletNotConnected"
    ELSE IF signer = Null THEN "SignerUnavailable"
    ELSE IF certificateNFTAddress = "" THEN "ContractCallFailed"
    ELSE "submit"

(***************************************************************************)
(* authorizeInstitute / revokeInstitute                                    *)
(***************************************************************************)
\* OwnerCheck gone wrong: the comparison with the owner is dropped
OwnerCheckDropped(ownerRead, acct) == TRUE

\* OwnerCheck gone wrong: the addresses are compared without toLowerCase
OwnerCheckExact(ownerRead, acct) == ownerRead = acct

\* owner.toLowerCase() !== account.toLowerCase() is false
OwnerCheck(ownerRead, acct) == ToLowerCase(ownerRead) = ToLowerCase(acct)

\* The common body of authorizeInstitute and revokeInstitute, up to the
\* write: the error the handler throws before submitting, or "submit".
SetAuthorizationGate(ownerReadOk) ==
    IF ~provider \/ account = Null THEN "WalletNotConnected"
    ELSE IF signer = Null THEN "SignerUnavailable"
    ELSE IF certificateNFTAddress = "" \/ ~ownerReadOk THEN "ReadFailed"
    ELSE IF ~OwnerCheck(owner, account) THEN "NotOwner"
    ELSE "submit"

\* whether the write changed the ledger
AuthorizationApplied(gate, txOutcome) ==
    gate = "submit" /\ TxApplied(LedgerAcceptsAuthorization(signer), txOutcome)

SetAuthorizationLast(op, target, gate, txOutcome) ==
    [op |-> op,
     target |-> Canon(target),
     result |-> IF gate = "submit"
                THEN AwaitTx(LedgerAcceptsAuthorization(signer), txOutcome)
                ELSE gate,
     txs |-> Submissions(gate, txOutcome), tx |-> TxSeen(gate, txOutcome),
     accountIsOwner |-> account # Null /\ Canon(account) = owner,
     ownerRead |-> gate \in {"NotOwner", "submit"},
     authBefore |-> authorizedInstitutes]

AuthorizeInstitute(target, ownerReadOk, txOutcome) ==
    LET gate == SetAuthorizationGate(ownerReadOk)
        after == IF AuthorizationApplied(gate, txOutcome)
                 THEN LedgerAuthorize(target) ELSE authorizedInstitutes
    IN  /\ authorizedInstitutes' = after
        /\ last' = SetAuthorizationLast("authorizeInstitute", target, gate, txOutcome)
        /\ UNCHANGED <<walletVars, configVars, registryVars, owner, requestVars,
                       bucketVars, viewVars, storeVars, gatewayVars, storedAccount, sessionVars>>

RevokeInstitute(target, ownerReadOk, txOutcome) ==
    LET gate == SetAuthorizationGate(ownerReadOk)
        after == IF AuthorizationApplied(gate, txOutcome)
                 THEN LedgerRevoke(target) ELSE authorizedInstitutes
    IN  /\ authorizedInstitutes' = after
        /\ last' = SetAuthorizationLast("revokeInstitute", target, gate, txOutcome)
        /\ UNCHANGED <<walletVars, configVars, registryVars, owner, requestVars,
                       bucketVars, viewVars, storeVars, gatewayVars, storedAccount, sessionVars>>

(***************************************************************************)
(* fetchAuthorizedProviders / fetchPendingProviders                        *)
(***************************************************************************)
NoBucket == [status |-> "none", read |-> FALSE, list |-> <<>>]

\* allUsers.filter(user => user.role.toLowerCase() === 'provider')
ProvidersOf(users) ==
    SelectSeqBy(users, {u \in Range(users) : ToLowerCase(u.role) = "provider"})

\* Promise.all over the providers' authorizedInstitutes reads, then the filter
\* on isAuthorized = wanted.  failing: the addresses whose read rejects.
\* read: the authorization reads were issued; status "error": the handler threw.
ClassifyBucket(regReadOk, failing, wanted) ==
    IF ~provider THEN [status |-> "ok", read |-> FALSE, list |-> <<>>]
    ELSE LET all == GetAllRegisteredUsers(regReadOk) IN
         IF ~all.ok THEN [status |-> "error", read |-> FALSE, list |-> <<>>]
         ELSE LET providers == ProvidersOf(all.users) IN
              IF ~GetCertificateContract
              THEN [status |-> "ok", read |-> FALSE, list |-> <<>>]
              ELSE IF \E u \in Range(providers) : u.address \in failing
                   THEN [status |-> "error", read |-> TRUE, list |-> <<>>]
                   ELSE [status |-> "ok", read |-> TRUE,
                         list |-> SelectSeqBy(providers,
                                    {u \in Range(providers) :
                                       (u.address \in authorizedInstitutes) = wanted})]

FetchAuthorizedProviders(regReadOk, failing) ==
    LET b == ClassifyBucket(regReadOk, failing, TRUE) IN
    /\ authorizedBucket' = b
    /\ last' = [op |-> "fetchAuthorizedProviders", result |-> b.status,
                read |-> b.read, failing |-> failing, list |-> b.list]
    /\ UNCHANGED <<walletVars, configVars, registryVars, authVars, requestVars,
                   pendingBucket, viewVars, storeVars, gatewayVars, storedAccount, sessionVars>>

FetchPendingProviders(regReadOk, failing) ==
    LET b == ClassifyBucket(regReadOk, failing, FALSE) IN
    /\ pendingBucket' = b
    /\ last' = [op |-> "fetchPendingProviders", result |-> b.status,
                read |-> b.read, failing |-> failing, list |-> b.list]
    /\ UNCHANGED <<walletVars, configVars, registryVars, authVars, requestVars,
                   authorizedBucket, viewVars, storeVars, gatewayVars, storedAccount, sessionVars>>

(***************************************************************************)
(* CertificateNFT: certificate requests and minting.  The contract's code  *)
(* is not part of the sources; the rules are the documented ones: ids are  *)
(* assigned from requestCounter, 1-based; approve and cancel are accepted  *)
(* only from the institute named on a pending request; approve mints.      *)
(* Whether cancel deletes the record or only marks it is not documented:   *)
(* cancelDeletes is fixed, either way, when the ledger is deployed.        *)
(***************************************************************************)
MaxRequests == 2

RequestIds == 1..MaxRequests

\* a storage slot that was never written, or was deleted
EmptyRequest ==
    [student |-> ZeroAddress, institute |-> ZeroAddress, name |-> "", message |-> "",
     studentMetadataHash |-> "", approved |-> FALSE, cancelled |-> FALSE]

\* certificateRequests(id), the public getter: the `cancelled` mark is not part
\* of what a read returns
ReadCertificateRequest(id) ==
    LET r == IF id \in DOMAIN certificateRequests
             THEN certificateRequests[id] ELSE EmptyRequest
    IN  [student |-> r.student, institute |-> r.institute, name |-> r.name,
         message |-> r.message, studentMetadataHash |-> r.studentMetadataHash,
         approved |-> r.approved]

\* the request is pending on the ledger
LedgerPending(id) ==
    /\ id \in 1..requestCounter
    /\ certificateRequests[id].institute # ZeroAddress
    /\ ~certificateRequests[id].approved
    /\ ~certificateRequests[id].cancelled

\* LedgerAcceptsResolution gone wrong: the request need not be pending
LedgerAcceptsResolutionAnyState(sender, id) ==
    /\ id \in 1..requestCounter
    /\ certificateRequests[id].institute = sender

\* the ledger accepts approveCertificateRequest / cancelCertificateRequest
LedgerAcceptsResolution(sender, id) ==
    LedgerPending(id) /\ certificateRequests[id].institute = sender

LedgerRequest(sender, institute, name, message, hash) ==
    [certificateRequests EXCEPT ![requestCounter + 1] =
        [student |-> sender, institute |-> Canon(institute), name |-> name,
         message |-> message, studentMetadataHash |-> hash,
         approved |-> FALSE, cancelled |-> FALSE]]

LedgerApprove(id) == [certificateRequests EXCEPT ![id].approved = TRUE]

LedgerMint(id, certificateType, tokenURI, institutionName) ==
    Append(certificates,
           [id |-> Len(certificates) + 1,
            name |-> certificateRequests[id].name,
            institute |-> institutionName,
            certificateType |-> certificateType,
            student |-> certificateRequests[id].student,
            tokenURI |-> tokenURI,
            request |-> id])

LedgerCancel(id) ==
    IF cancelDeletes
    THEN [certificateRequests EXCEPT ![id] = EmptyRequest]
    ELSE [certificateRequests EXCEPT ![id].cancelled = TRUE]

(***************************************************************************)
(* approveCertificateRequest / cancelCertificateRequest                    *)
(***************************************************************************)
ApproveCertificateRequest(requestId, certificateType, tokenURI, institutionName, txOutcome) ==
    LET gate == WriteGate
        accepted == gate = "submit" /\ LedgerAcceptsResolution(signer, requestId)
        applied == TxApplied(accepted, txOutcome)
    IN  /\ certificateRequests' =
               IF applied THEN LedgerApprove(requestId) ELSE certificateRequests
        /\ certificates' =
               IF applied
               THEN LedgerMint(requestId, certificateType, tokenURI, institutionName)
               ELSE certificates
        /\ last' = [op |-> "approveCertificateRequest", id |-> requestId,
                    tokenURI |-> tokenURI,
                    result |-> IF gate = "submit" THEN AwaitTx(accepted, txOutcome)
                               ELSE gate,
                    txs |-> Submissions(gate, txOutcome), tx |-> TxSeen(gate, txOutcome)]
        /\ UNCHANGED <<walletVars, configVars, registryVars, authVars,
                       requestCounter, cancelDeletes, bucketVars, viewVars, storeVars, gatewayVars, storedAccount, sessionVars>>

CancelCertificateRequest(requestId, txOutcome) ==
    LET gate == WriteGate
        accepted == gate = "submit" /\ LedgerAcceptsResolution(signer, requestId)
        applied == TxApplied(accepted, txOutcome)
    IN  /\ certificateRequests' =
               IF applied THEN LedgerCancel(requestId) ELSE certificateRequests
        /\ last' = [op |-> "cancelCertificateRequest", id |-> requestId,
                    result |-> IF gate = "submit" THEN AwaitTx(accepted, txOutcome)
                               ELSE gate,
                    txs |-> Submissions(gate, txOutcome), tx |-> TxSeen(gate, txOutcome)]
        /\ UNCHANGED <<walletVars, configVars, registryVars, authVars,
                       requestCounter, cancelDeletes, certificates, bucketVars, viewVars, storeVars, gatewayVars, storedAccount, sessionVars>>

(***************************************************************************)
(* requestCertificateIssuance                                              *)
(***************************************************************************)
\* the checks before the write: wallet, configured address, signer, registry
\* contract, and the getUser(account) read (regReadOk)
RequestGate(regReadOk) ==
    IF ~provider \/ account = Null THEN "WalletNotConnected"
    ELSE IF certificateNFTAddress = "" THEN "ContractUnavailable"
    ELSE IF signer = Null THEN "SignerUnavailable"
    ELSE IF ~GetContract THEN "ContractUnavailable"
    ELSE IF ~regReadOk THEN "ReadFailed"
    ELSE "submit"

RequestCertificateIssuance(providerAddress, certificateName, message, regReadOk, txOutcome) ==
    LET gate == RequestGate(regReadOk)
        studentMetadataHash == GetUser(account).metadataHash
        accepted == gate = "submit"
        applied == TxApplied(accepted, txOutcome)
    IN  /\ requestCounter < MaxRequests
        /\ certificateRequests' =
               IF applied
               THEN LedgerRequest(signer, providerAddress, certificateName, message,
                                  studentMetadataHash)
               ELSE certificateRequests
        /\ requestCounter' = IF applied THEN requestCounter + 1 ELSE requestCounter
        /\ last' = [op |-> "requestCertificateIssuance",
                    result |-> IF gate = "submit" THEN AwaitTx(accepted, txOutcome)
                               ELSE gate,
                    txs |-> Submissions(gate, txOutcome), tx |-> TxSeen(gate, txOutcome),
                    callerRole |-> IF account = Null THEN "" ELSE GetUser(account).role,
                    callerRegistered |-> account # Null /\ IsUserRegistered(account)]
        /\ UNCHANGED <<walletVars, configVars, registryVars, authVars,
                       cancelDeletes, certificates, bucketVars, viewVars, storeVars, gatewayVars, storedAccount, sessionVars>>

(***************************************************************************)
(* fetchProviderCertificateRequests                                        *)
(***************************************************************************)
\* MatchesPending gone wrong: the institute is compared without toLowerCase
MatchesPendingExact(req) == req.institute = account /\ ~req.approved

\* req.institute.toLowerCase() === account.toLowerCase() && !req.approved
MatchesPending(req) ==
    ToLowerCase(req.institute) = ToLowerCase(account) /\ ~req.approved

\* RequestEntries gone wrong: one failing read rejects the whole Promise.all
RequestEntriesAbort(count, failing) ==
    [ok |-> \A id \in 1..count : id \notin failing,
     entries |-> [id \in 1..count |->
                    IF MatchesPending(ReadCertificateRequest(id))
                    THEN <<[id |-> id] @@ ReadCertificateRequest(id)>> ELSE <<>>]]

\* the mapped promises: per id, the request when it matches, nothing when it
\* does not (undefined) or when its read threw (null, caught per id)
RequestEntries(count, failing) ==
    [ok |-> TRUE,
     entries |-> [id \in 1..count |->
                    IF id \in failing THEN <<>>
                    ELSE IF MatchesPending(ReadCertificateRequest(id))
                         THEN <<[id |-> id] @@ ReadCertificateRequest(id)>>
                         ELSE <<>>]]

RECURSIVE Flatten(_)
\* results.filter(Boolean), in id order
Flatten(entries) ==
    IF entries = <<>> THEN <<>> ELSE Head(entries) \o Flatten(Tail(entries))

\* how far the handler gets: "empty" (no provider or account: returns []),
\* "caught" (getSigner or requestCounter() threw: the outer catch returns []),
\* or "scanned"
RequestScanStage(countReadOk) ==
    IF ~provider \/ account = Null THEN "empty"
    ELSE IF signer = Null THEN "caught"
    ELSE IF certificateNFTAddress = "" \/ ~countReadOk THEN "caught"
    ELSE "scanned"

FetchProviderCertificateRequests(countReadOk, failing) ==
    LET stage == RequestScanStage(countReadOk)
        got == RequestEntries(requestCounter, failing)
    IN  /\ last' = [op |-> "fetchProviderCertificateRequests",
                    stage |-> IF stage = "scanned" /\ ~got.ok THEN "caught" ELSE stage,
                    counted |-> stage = "scanned",
                    failing |-> failing \cap (1..requestCounter),
                    list |-> IF stage = "scanned" /\ got.ok
                             THEN Flatten(got.entries) ELSE <<>>]
        /\ UNCHANGED <<walletVars, configVars, registryVars, authVars, requestVars,
                       bucketVars, viewVars, storeVars, gatewayVars, storedAccount, sessionVars>>

(***************************************************************************)
(* Content gateways.  Every fetch of a get path is answered by the         *)
(* environment with one of GatewayResponses; a payload records the gateway *)
(* that served it, so that which response a get returned is observable.    *)
(***************************************************************************)
Pinata == "gateway.pinata.cloud"
IpfsIo == "ipfs.io"

\* "throws": fetch rejects (transport failure); "http500": a response with
\* ok = false and a body that is not JSON; "http404json": a response with
\* ok = false whose body is a JSON error document; "badjson": ok = true but
\* json() rejects; "ok": ok = true and a JSON body
GatewayResponses == {"throws", "http500", "http404json", "badjson", "ok"}

Payload(gateway, hash) == [servedBy |-> gateway, cid |-> hash]
NoPayload == [servedBy |-> "none", cid |-> ""]

\* the parsed body of a gateway's JSON error document
ErrorBody(gateway) == [servedBy |-> gateway, cid |-> "error"]

\* tokenURI.replace('ipfs://', '')
StripIpfs(uri) ==
    CASE uri = "ipfs://Qm123" -> "Qm123"
      [] uri = "ipfs://Qm456" -> "Qm456"
      [] OTHER -> uri

\* GetWithFallback gone wrong: a non-success response is not thrown on, and
\* its body is parsed in the first try block, whose failure ends the get
GetWithFallbackNoOkCheck(hash, r1, r2) ==
    IF r1 = "ok" THEN [value |-> Payload(Pinata, hash), attempts |-> <<Pinata>>]
    ELSE IF r1 = "throws" /\ r2 = "ok"
         THEN [value |-> Payload(IpfsIo, hash), attempts |-> <<Pinata, IpfsIo>>]
         ELSE [value |-> NoPayload,
               attempts |-> IF r1 = "throws" THEN <<Pinata, IpfsIo>> ELSE <<Pinata>>]

\* try { fetch pinata; if (!ok) throw; return json } catch { try { fetch
\* ipfs.io; if (!ok) throw; return json } catch { return null } }
GetWithFallback(hash, r1, r2) ==
    IF r1 = "ok" THEN [value |-> Payload(Pinata, hash), attempts |-> <<Pinata>>]
    ELSE IF r2 = "ok"
         THEN [value |-> Payload(IpfsIo, hash), attempts |-> <<Pinata, IpfsIo>>]
         ELSE [value |-> NoPayload, attempts |-> <<Pinata, IpfsIo>>]

\* fetchStudentProfile's get: only a non-success response of pinata leads to
\* ipfs.io; a rejected fetch or json() goes to the handler's catch (null)
GetProfileWithFallback(hash, r1, r2) ==
    IF r1 = "throws" THEN [value |-> NoPayload, attempts |-> <<Pinata>>]
    ELSE IF r1 = "ok" THEN [value |-> Payload(Pinata, hash), attempts |-> <<Pinata>>]
    ELSE IF r1 = "badjson" THEN [value |-> NoPayload, attempts |-> <<Pinata>>]
    ELSE IF r2 = "ok"
         THEN [value |-> Payload(IpfsIo, hash), attempts |-> <<Pinata, IpfsIo>>]
         ELSE [value |-> NoPayload, attempts |-> <<Pinata, IpfsIo>>]

\* CertificateSearch.handleSearch's get: ipfs.io alone, no check of response.ok:
\* whatever body parses as JSON becomes the metadata; json() of a body that is
\* not JSON rejects and is caught (metadata = null)
GetSingleGateway(hash, r) ==
    IF r = "ok" THEN [value |-> Payload(IpfsIo, hash), attempts |-> <<IpfsIo>>]
    ELSE IF r = "http404json" THEN [value |-> ErrorBody(IpfsIo), attempts |-> <<IpfsIo>>]
    ELSE [value |-> NoPayload, attempts |-> <<IpfsIo>>]

\* one get as its caller observed it
GetRecord(path, hash, r1, r2, got) ==
    [path |-> path, cid |-> hash, r1 |-> r1, r2 |-> r2,
     value |-> got.value, attempts |-> got.attempts]

FetchStudentMetadata(studentAddress, metadataHash, r1, r2) ==
    /\ last' = [op |-> "fetchStudentMetadata", result |-> "ok",
                gets |-> IF metadataHash = "" THEN <<>>
                         ELSE <<GetRecord("fetchStudentMetadata", metadataHash, r1, r2,
                                          GetWithFallback(metadataHash, r1, r2))>>]
    /\ UNCHANGED <<walletVars, configVars, registryVars, authVars, requestVars,
                   bucketVars, viewVars, storeVars, gatewayVars, storedAccount, sessionVars>>

\* throws (result "error") when getSigner or the getUser read rejects
FetchProviderMetadata(address, regReadOk, r1, r2) ==
    LET hash == GetUser(address).metadataHash
        stage == IF ~provider THEN "null"
                 ELSE IF signer = Null \/ userRegistryAddress = "" \/ ~regReadOk
                      THEN "error"
                      ELSE IF hash = "" THEN "null" ELSE "get"
    IN  /\ last' = [op |-> "fetchProviderMetadata",
                    readOk |-> regReadOk,
                    result |-> IF stage = "error" THEN "error" ELSE "ok",
                    gets |-> IF stage = "get"
                             THEN <<GetRecord("fetchProviderMetadata", hash, r1, r2,
                                              GetWithFallback(hash, r1, r2))>>
                             ELSE <<>>]
        /\ UNCHANGED <<walletVars, configVars, registryVars, authVars, requestVars,
                       bucketVars, viewVars, storeVars, gatewayVars, storedAccount, sessionVars>>

\* checkInstituteAuthorization: false without a provider; throws (result
\* "error") when getSigner or the authorizedInstitutes read rejects
CheckInstituteAuthorization(address, readOk) ==
    LET stage == IF ~provider THEN "false"
                 ELSE IF signer = Null \/ certificateNFTAddress = "" \/ ~readOk
                      THEN "error" ELSE "read"
    IN  /\ last' = [op |-> "checkInstituteAuthorization", address |-> address,
                    readOk |-> readOk,
                    result |-> IF stage = "error" THEN "error" ELSE "ok",
                    value |-> stage = "read" /\ Canon(address) \in authorizedInstitutes]
        /\ UNCHANGED <<walletVars, configVars, registryVars, authVars, requestVars,
                       bucketVars, viewVars, storeVars, gatewayVars, storedAccount, sessionVars>>

\* every failure is caught and turned into null
FetchStudentProfile(address, regReadOk, r1, r2) ==
    LET hash == GetUser(address).metadataHash
        stage == IF ~provider THEN "null"
                 ELSE IF ~GetContract \/ ~regReadOk THEN "null"
                 ELSE IF hash = "" THEN "null" ELSE "get"
    IN  /\ last' = [op |-> "fetchStudentProfile", result |-> "ok",
                    gets |-> IF stage = "get"
                             THEN <<GetRecord("fetchStudentProfile", hash, r1, r2,
                                              GetProfileWithFallback(hash, r1, r2))>>
                             ELSE <<>>]
        /\ UNCHANGED <<walletVars, configVars, registryVars, authVars, requestVars,
                       bucketVars, viewVars, storeVars, gatewayVars, storedAccount, sessionVars>>

(***************************************************************************)
(* getCertificatesByAddress / CertificateSearch.handleSearch               *)
(***************************************************************************)
\* getStudentCertificates(address): the ids minted to the address, in order
GetStudentCertificates(address) ==
    SelectSeqBy(certificates,
                {c \in Range(certificates) : c.student = Canon(address)})

\* CertificateItem gone wrong: the stripped hash is returned as the tokenURI
CertificateItemStripped(c, got) ==
    [id |-> c.id, name |-> c.name, institute |-> c.institute,
     certificateType |-> c.certificateType, student |-> c.student,
     tokenURI |-> StripIpfs(c.tokenURI), metadata |-> got.value]

\* the certificate object a listing returns for one id
CertificateItem(c, got) ==
    [id |-> c.id, name |-> c.name, institute |-> c.institute,
     certificateType |-> c.certificateType, student |-> c.student,
     tokenURI |-> c.tokenURI, metadata |-> got.value]

\* idsReadOk: the getStudentCertificates read; failing: the ids whose
\* getCertificateDetails / tokenURI read rejects (Promise.all then rejects);
\* resp: per owned certificate, what the two gateways answer
GetCertificatesByAddress(searchAddress, idsReadOk, failing, resp) ==
    LET owned == GetStudentCertificates(searchAddress)
        ok == /\ GetCertificateContract /\ idsReadOk
              /\ \A c \in Range(owned) : c.id \notin failing
        got(i) == GetWithFallback(StripIpfs(owned[i].tokenURI), resp[i][1], resp[i][2])
    IN  /\ last' = [op |-> "getCertificatesByAddress",
                    address |-> searchAddress,
                    result |-> IF ok THEN "ok" ELSE "error",
                    list |-> IF ok THEN [i \in DOMAIN owned |-> CertificateItem(owned[i], got(i))]
                             ELSE <<>>,
                    gets |-> IF ok
                             THEN [i \in DOMAIN owned |->
                                     GetRecord("getCertificatesByAddress",
                                               StripIpfs(owned[i].tokenURI),
                                               resp[i][1], resp[i][2], got(i))]
                             ELSE <<>>]
        /\ UNCHANGED <<walletVars, configVars, registryVars, authVars, requestVars,
                       bucketVars, viewVars, storeVars, gatewayVars, storedAccount, sessionVars>>

\* the component's search: needs a signer; any rejected ledger read ends in the
\* handler's catch (error message, no certificates)
HandleSearch(searchAddress, idsReadOk, failing, resp) ==
    LET owned == GetStudentCertificates(searchAddress)
        ok == /\ provider /\ signer # Null /\ certificateNFTAddress # "" /\ idsReadOk
              /\ \A c \in Range(owned) : c.id \notin failing
        got(i) == GetSingleGateway(StripIpfs(owned[i].tokenURI), resp[i][2])
    IN  /\ last' = [op |-> "handleSearch",
                    address |-> searchAddress,
                    result |-> IF ok THEN "ok" ELSE "error",
                    list |-> IF ok THEN [i \in DOMAIN owned |-> CertificateItem(owned[i], got(i))]
                             ELSE <<>>,
                    gets |-> IF ok
                             THEN [i \in DOMAIN owned |->
                                     GetRecord("handleSearch",
                                               StripIpfs(owned[i].tokenURI),
                                               "unused", resp[i][2], got(i))]
                             ELSE <<>>]
        /\ UNCHANGED <<walletVars, configVars, registryVars, authVars, requestVars,
                       bucketVars, viewVars, storeVars, gatewayVars, storedAccount, sessionVars>>

(***************************************************************************)
(* fetchUserData: the cached identity view                                 *)
(***************************************************************************)
NullUserData == [isNull |-> TRUE, role |-> "", registered |-> FALSE]

\* what fetchUserData leaves in userData: untouched without account or
\* provider; null when the contract is missing or a read rejects (readOk)
FetchedUserData(readOk) ==
    IF account = Null \/ ~provider THEN userData
    ELSE IF ~GetContract \/ ~readOk THEN NullUserData
    ELSE [isNull |-> FALSE,
          role |-> ToLowerCase(GetUser(account).role),
          registered |-> IsUserRegistered(account)]

(***************************************************************************)
(* The content store's write side (utils/ipfs, not part of the sources):   *)
(* an upload rejects ("throws"), resolves without a content identifier     *)
(* ("nocid"), or resolves with the identifier of what was uploaded ("ok"). *)
(***************************************************************************)
UploadOutcomes == {"throws", "nocid", "ok"}
Undefined == "undefined"
DocumentCid == "QmDoc"

\* the content identifier of a metadata object
CidOf(metadata) ==
    IF metadata.kind = "student" THEN
        (IF metadata.studentId = "S100" THEN "QmStudentS100" ELSE "QmStudentS200")
    ELSE IF metadata.documentCid = DocumentCid THEN "QmProvider"
         ELSE "QmProviderNoDocument"

(***************************************************************************)
(* UserRegistry.registerUser (the contract is not part of the sources):    *)
(* Unregistered -> Registered is the only transition.                      *)
(***************************************************************************)
LedgerAcceptsRegistration(sender) == ~IsUserRegistered(sender)

LedgerRegister(sender, role, cid) ==
    Append(registry, [address |-> sender, role |-> role, metadataHash |-> cid])

(***************************************************************************)
(* registerUser                                                            *)
(***************************************************************************)
\* The handler up to the ledger write.  stage is the error thrown, or "submit";
\* doc / json are what the uploads came to ("skipped" when not reached).
RegisterUploads(role, hasStudentData, studentId, hasProviderData, docOutcome, jsonOutcome) ==
    LET early == IF ~provider \/ account = Null THEN "WalletNotConnected"
                 ELSE IF userRegistryAddress = "" THEN "ContractUnavailable"
                 ELSE IF signer = Null THEN "SignerUnavailable"
                 ELSE IF role = "student" /\ ~hasStudentData THEN "InvalidInput"
                 ELSE IF role # "student" /\ ~hasProviderData THEN "InvalidInput"
                 ELSE "uploads"
        doc == IF early = "uploads" /\ role # "student" THEN docOutcome ELSE "skipped"
        metadata == IF role = "student"
                    THEN [kind |-> "student", studentId |-> studentId,
                          documentCid |-> ""]
                    ELSE [kind |-> "provider", studentId |-> "",
                          documentCid |-> IF doc = "ok" THEN DocumentCid ELSE Undefined]
        json == IF early = "uploads" /\ doc # "throws" THEN jsonOutcome ELSE "skipped"
    IN  [stage |-> IF early # "uploads" THEN early
                   ELSE IF doc = "throws" THEN "UploadFailed"
                   ELSE IF json # "ok" THEN "UploadFailed"
                   ELSE "submit",
         doc |-> doc, json |-> json, metadata |-> metadata,
         cid |-> CidOf(metadata),
         pinned |-> (IF doc = "ok" THEN {DocumentCid} ELSE {})
                    \cup (IF json = "ok" THEN {CidOf(metadata)} ELSE {})]

\* RegisterArgs gone wrong: the document's identifier is registered
RegisterArgsDocumentCid(role, up) == [role |-> role, cid |-> DocumentCid]

\* contract.registerUser(role, cid): cid is the metadata upload's identifier
RegisterArgs(role, up) == [role |-> role, cid |-> up.cid]

\* the refresh gone wrong: fetchUserData is called whatever registerUser's
\* outcome
RefreshAfterRegisterAlways(result) == TRUE

\* `await fetchUserData()` is the last statement of registerUser: it is reached
\* only when nothing before it has thrown
RefreshAfterRegister(result) == result = "ok"

RegisterUser(role, hasStudentData, studentId, hasProviderData, docOutcome, jsonOutcome, txOutcome, refreshOk) ==
    LET up == RegisterUploads(role, hasStudentData, studentId, hasProviderData,
                              docOutcome, jsonOutcome)
        accepted == up.stage = "submit" /\ LedgerAcceptsRegistration(signer)
        applied == TxApplied(accepted, txOutcome)
        result == IF up.stage = "submit" THEN AwaitTx(accepted, txOutcome) ELSE up.stage
    IN  /\ UNCHANGED <<walletVars, configVars, authVars, requestVars, bucketVars,
                       gatewayVars, storedAccount, sessionVars>>
        /\ ipfs' = ipfs \cup up.pinned
        /\ registry' = IF applied
                       THEN LedgerRegister(signer, RegisterArgs(role, up).role,
                                           RegisterArgs(role, up).cid)
                       ELSE registry
        /\ userData' = IF RefreshAfterRegister(result)
                       THEN FetchedUserData(refreshOk)' ELSE userData
        /\ loading' = IF RefreshAfterRegister(result) /\ account # Null /\ provider
                      THEN FALSE ELSE loading
        /\ last' = [op |-> "registerUser", role |-> role, result |-> result,
                    refreshed |-> RefreshAfterRegister(result),
                    txs |-> Submissions(up.stage, txOutcome),
                    tx |-> TxSeen(up.stage, txOutcome),
                    doc |-> up.doc, json |-> up.json, cid |-> up.cid,
                    metadata |-> up.metadata]

(***************************************************************************)
(* EthereumContext: the wallet announces another selected account          *)
(* (accountsChanged -> updateAccountInfo).  The signer follows the wallet; *)
(* ContractContext's effect on [account, provider] re-runs fetchUserData.  *)
(***************************************************************************)
AccountsChanged(newAccount, refreshOk) ==
    /\ newAccount # account
    /\ account' = newAccount
    /\ signer' = Canon(newAccount)
    /\ UNCHANGED <<provider, configVars, registryVars, authVars, requestVars,
                   bucketVars, storeVars, gatewayVars, sessionVars>>
    /\ storedAccount' = newAccount
    /\ userData' = FetchedUserData(refreshOk)'
    /\ loading' = IF provider THEN FALSE ELSE loading
    /\ last' = [op |-> "accountsChanged"]

(***************************************************************************)
(* getStudentByStudentId / checkIsOwner                                    *)
(***************************************************************************)
\* the JSON document the content store holds under a content identifier
\* (studentId "" / documentCid "": the document has no such field)
BlobOf(cid) ==
    CASE cid = "QmStudentS100" -> [kind |-> "student", studentId |-> "S100", documentCid |-> ""]
      [] cid = "QmStudentS200" -> [kind |-> "student", studentId |-> "S200", documentCid |-> ""]
      [] cid = "QmProvider" -> [kind |-> "provider", studentId |-> "", documentCid |-> DocumentCid]
      [] cid = "QmProviderNoDocument" -> [kind |-> "provider", studentId |-> "", documentCid |-> Undefined]
      [] OTHER -> [kind |-> "other", studentId |-> "", documentCid |-> ""]

\* allUsers.filter(user => user.role.toLowerCase() === 'student')
StudentsOf(users) ==
    SelectSeqBy(users, {u \in Range(users) : ToLowerCase(u.role) = "student"})

\* fetchStudentMetadata(address, metadataHash) as a value: null without a hash
StudentMetadataOf(metadataHash, r1, r2) ==
    IF metadataHash = "" THEN NoPayload
    ELSE GetWithFallback(metadataHash, r1, r2).value

\* metadata?.studentId?.toLowerCase() === studentId.toLowerCase()
StudentIdMatches(got, studentId) ==
    /\ got # NoPayload
    /\ BlobOf(got.cid).studentId # ""
    /\ ToLowerCase(BlobOf(got.cid).studentId) = ToLowerCase(studentId)

\* the loop over the students, in the order of the listing: the positions
\* whose metadata matched; the first one is returned
MatchingStudents(students, studentId, resp) ==
    {i \in DOMAIN students :
        StudentIdMatches(StudentMetadataOf(students[i].metadataHash,
                                           resp[students[i].address][1],
                                           resp[students[i].address][2]),
                         studentId)}

\* stage "empty": no provider (returns null); "caught": getAllRegisteredUsers
\* threw and the outer catch returned null; "searched": the loop ran
GetStudentByStudentId(studentId, regReadOk, resp) ==
    LET all == GetAllRegisteredUsers(regReadOk)
        students == StudentsOf(all.users)
        hits == MatchingStudents(students, studentId, resp)
        first == CHOOSE i \in hits : \A j \in hits : i <= j
    IN  /\ last' = [op |-> "getStudentByStudentId",
                    studentId |-> studentId,
                    stage |-> IF ~provider THEN "empty"
                              ELSE IF ~all.ok THEN "caught" ELSE "searched",
                    resp |-> resp,
                    result |-> IF provider /\ all.ok /\ hits # {}
                               THEN students[first].address ELSE Null]
        /\ UNCHANGED <<walletVars, configVars, registryVars, authVars, requestVars,
                       bucketVars, viewVars, storeVars, gatewayVars, storedAccount, sessionVars>>

\* stage "empty": no provider or no contract (returns false); "caught": the
\* owner() read threw and the catch returned false; "read": compared
CheckIsOwner(address, ownerReadOk) ==
    LET stage == IF ~provider THEN "empty"
                 ELSE IF ~GetCertificateContract THEN "empty"
                 ELSE IF ~ownerReadOk THEN "caught" ELSE "read"
    IN  /\ last' = [op |-> "checkIsOwner", address |-> address, stage |-> stage,
                    result |-> stage = "read" /\ ToLowerCase(owner) = ToLowerCase(address)]
        /\ UNCHANGED <<walletVars, configVars, registryVars, authVars, requestVars,
                       bucketVars, viewVars, storeVars, gatewayVars, storedAccount, sessionVars>>

(***************************************************************************)
(* fetchStudentMetadata, await by await.  Each fetch is a suspension       *)
(* point: the handler goes on when the awaited gateway answers.  A gateway *)
(* in `hung` accepts the connection and never answers; fetch is called     *)
(* without a signal or a timer, so nothing else resumes the handler.       *)
(***************************************************************************)
NoFetch == [pc |-> "idle", cid |-> "", hung |-> {}, attempts |-> <<>>, value |-> NoPayload]

\* if (!metadataHash) return null; otherwise the fetch from pinata is issued
StartFetchStudentMetadata(metadataHash, hung) ==
    /\ inflight.pc \in {"idle", "done"}
    /\ inflight' = IF metadataHash = ""
                   THEN [NoFetch EXCEPT !.pc = "done"]
                   ELSE [pc |-> Pinata, cid |-> metadataHash, hung |-> hung,
                         attempts |-> <<Pinata>>, value |-> NoPayload]
    /\ UNCHANGED <<walletVars, configVars, registryVars, authVars, requestVars,
                   bucketVars, viewVars, storeVars, storedAccount, sessionVars, last>>

\* the awaited gateway answers with r: a JSON body of a success response is
\* returned; any other answer of pinata leads to the fetch from ipfs.io, and
\* any other answer of ipfs.io to null
GatewayAnswers(r) ==
    /\ inflight.pc \in {Pinata, IpfsIo}
    /\ inflight.pc \notin inflight.hung
    /\ inflight' =
          IF r = "ok"
          THEN [inflight EXCEPT !.pc = "done", !.value = Payload(inflight.pc, inflight.cid)]
          ELSE IF inflight.pc = Pinata
               THEN [inflight EXCEPT !.pc = IpfsIo, !.attempts = <<Pinata, IpfsIo>>]
               ELSE [inflight EXCEPT !.pc = "done"]
    /\ UNCHANGED <<walletVars, configVars, registryVars, authVars, requestVars,
                   bucketVars, viewVars, storeVars, storedAccount, sessionVars, last>>

(***************************************************************************)
(* EthereumContext, event by event, and fetchUserData, await by await.     *)
(* A state change of account or provider re-renders ContractContext, whose *)
(* effect on [account, provider] calls fetchUserData for the new account;  *)
(* the call stays in flight until its reads are answered.  Nothing cancels *)
(* a call in flight or tells the answers of two calls apart.               *)
(***************************************************************************)
\* what a fetchUserData call for account a sets when its reads are answered
UserDataOf(a, readOk) ==
    IF ~GetContract \/ ~readOk THEN NullUserData
    ELSE [isNull |-> FALSE,
          role |-> ToLowerCase(GetUser(a).role),
          registered |-> IsUserRegistered(a)]

\* fetchUserData(): if (account && provider) { setLoading(true); ... }
RefreshesWith(a) == IF a # Null /\ provider THEN refreshes \cup {a} ELSE refreshes

\* providerObject.on('accountsChanged', accounts => updateAccountInfo(accounts[0]))
WalletAccountsChanged(newAccount) ==
    /\ provider
    /\ newAccount # account
    /\ account' = newAccount
    /\ storedAccount' = newAccount
    /\ signer' = Canon(newAccount)
    /\ refreshes' = RefreshesWith(newAccount)
    /\ loading' = TRUE
    /\ last' = [op |-> "accountsChanged"]
    /\ UNCHANGED <<provider, configVars, registryVars, authVars, requestVars, bucketVars,
                   userData, storeVars, gatewayVars, verified, verifiedFor, signIns>>

\* connect() with Web3-Onboard: setProvider(new BrowserProvider), setAccount;
\* local storage is not written.  The new provider object re-runs the effect.
Connect(walletAccount) ==
    /\ provider
    /\ account' = walletAccount
    /\ signer' = Canon(walletAccount)
    /\ refreshes' = RefreshesWith(walletAccount)
    /\ loading' = TRUE
    /\ last' = [op |-> "connect"]
    /\ UNCHANGED <<provider, configVars, registryVars, authVars, requestVars, bucketVars,
                   userData, storeVars, gatewayVars, storedAccount, verified,
                   verifiedFor, signIns>>

\* disconnect(): setAccount(null); setVerified(false).  The effect re-runs
\* fetchUserData, which does nothing without an account.
Disconnect ==
    /\ account # Null
    /\ account' = Null
    /\ verified' = FALSE
    /\ last' = [op |-> "disconnect"]
    /\ UNCHANGED <<provider, signer, configVars, registryVars, authVars, requestVars,
                   bucketVars, viewVars, storeVars, gatewayVars, storedAccount,
                   verifiedFor, refreshes, signIns>>

\* providerObject.on('chainChanged'): removeItem, setAccount(null), setVerified(false)
ChainChanged ==
    /\ provider
    /\ storedAccount' = Null
    /\ account' = Null
    /\ verified' = FALSE
    /\ last' = [op |-> "chainChanged"]
    /\ UNCHANGED <<provider, signer, configVars, registryVars, authVars, requestVars,
                   bucketVars, viewVars, storeVars, gatewayVars, verifiedFor,
                   refreshes, signIns>>

\* The provider components are mounted again (the page is loaded again): the
\* React state starts over, the effect restores the account from local
\* storage without asking the wallet, and the wallet signs with whatever
\* account it has selected by now (walletAccount).
Mount(walletAccount) ==
    /\ account' = storedAccount
    /\ signer' = IF provider THEN walletAccount ELSE Null
    /\ verified' = FALSE
    /\ verifiedFor' = Null
    /\ signIns' = {}
    /\ userData' = NullUserData
    /\ refreshes' = IF storedAccount # Null /\ provider THEN {storedAccount} ELSE {}
    /\ loading' = (storedAccount # Null /\ provider)
    /\ inflight' = NoFetch
    /\ last' = [op |-> "mount"]
    /\ UNCHANGED <<provider, configVars, registryVars, authVars, requestVars, bucketVars,
                   storeVars, storedAccount>>

\* the reads of the fetchUserData call for account a are answered (readOk) or
\* rejected: setUserData({role, registered}) or setUserData(null); setLoading(false)
FetchUserDataSettles(a, readOk) ==
    /\ a \in refreshes
    /\ refreshes' = refreshes \ {a}
    /\ userData' = UserDataOf(a, readOk)
    /\ loading' = FALSE
    /\ last' = [op |-> "fetchUserData", account |-> a]
    /\ UNCHANGED <<walletVars, configVars, registryVars, authVars, requestVars, bucketVars,
                   storeVars, gatewayVars, storedAccount, verified, verifiedFor, signIns>>

\* signInWithEthereum(), up to its first await: returns at once without an
\* account or a provider
SignInWithEthereum ==
    /\ signIns' = IF account # Null /\ provider THEN signIns \cup {account} ELSE signIns
    /\ last' = [op |-> "signInWithEthereum"]
    /\ UNCHANGED <<walletVars, configVars, registryVars, authVars, requestVars, bucketVars,
                   viewVars, storeVars, gatewayVars, storedAccount, verified,
                   verifiedFor, refreshes>>

\* the signature and the isValidSignature read of the sign-in started for
\* account a are there: setVerified(isValidSignature === magic value); a
\* rejected getSigner, signMessage or read is caught and changes nothing.
\* The profile at a accepts only a signature of its own signer.
SignInSettles(a, answer) ==
    /\ a \in signIns
    /\ signIns' = signIns \ {a}
    /\ verified' = IF signer = Null \/ answer = "throws" THEN verified
                   ELSE (answer = "valid" /\ signer = Canon(a))
    /\ verifiedFor' = IF signer # Null /\ answer = "valid" /\ signer = Canon(a)
                      THEN a ELSE verifiedFor
    /\ last' = [op |-> "signInSettles", account |-> a]
    /\ UNCHANGED <<walletVars, configVars, registryVars, authVars, requestVars, bucketVars,
                   viewVars, storeVars, gatewayVars, storedAccount, refreshes>>

(***************************************************************************)
(* Initial states.  The ledgers start as deployed: owner set, nothing      *)
(* authorized, no request, no certificate.  The wallet's account may come  *)
(* from local storage (EthereumContext restores it without asking the     *)
(* wallet), so account and signer need not be the same address.            *)
(***************************************************************************)
NoOp == [op |-> "none"]

User(a, role, hash) == [address |-> a, role |-> role, metadataHash |-> hash]

NoRequests == [id \in RequestIds |-> EmptyRequest]

InitCommon ==
    /\ provider = TRUE
    /\ userRegistryAddress = "0xRegistry"
    /\ certificateNFTAddress = "0xCertificateNFT"
    /\ owner = "0xOwner"
    /\ authorizedInstitutes = {}
    /\ requestCounter = 0
    /\ certificateRequests = NoRequests
    /\ certificates = <<>>
    /\ authorizedBucket = NoBucket
    /\ pendingBucket = NoBucket
    /\ userData = NullUserData
    /\ loading = FALSE
    /\ ipfs = {}
    /\ inflight = NoFetch
    /\ verified = FALSE
    /\ verifiedFor = Null
    /\ refreshes = {}
    /\ signIns = {}
    /\ last = NoOp

(***************************************************************************)
(* SpecAuth: the authorization list and the two provider buckets.          *)
(***************************************************************************)
AuthRegistries ==
    {<<User("0xAA", "provider", "QmProvider"), User("0xBB", "student", "QmStudentS100")>>,
     <<User("0xBB", "Provider", "QmProvider"), User("0xCC", "student", "QmStudentS200"),
       User("0xAA", "provider", "QmProviderNoDocument")>>}

InitAuth ==
    /\ InitCommon
    /\ account \in {Null, "0xowner", "0xOwner", "0xaa"}
    /\ signer \in {Null, "0xOwner", "0xAA"}
    /\ registry \in AuthRegistries
    /\ cancelDeletes = TRUE
    /\ storedAccount = account

NextAuth ==
    \/ \E t \in {"0xAA", "0xbb"}, ownerReadOk \in BOOLEAN, tx \in TxOutcomes :
          AuthorizeInstitute(t, ownerReadOk, tx)
    \/ \E t \in {"0xAA", "0xbb"}, ownerReadOk \in BOOLEAN, tx \in TxOutcomes :
          RevokeInstitute(t, ownerReadOk, tx)
    \/ \E regReadOk \in BOOLEAN, failing \in SUBSET {"0xAA", "0xBB"} :
          FetchAuthorizedProviders(regReadOk, failing)
    \/ \E regReadOk \in BOOLEAN, failing \in SUBSET {"0xAA", "0xBB"} :
          FetchPendingProviders(regReadOk, failing)

SpecAuth == InitAuth /\ [][NextAuth]_vars

(***************************************************************************)
(* Properties of the authorization list and the buckets (SpecAuth).        *)
(***************************************************************************)
SetAuthorizationOps == {"authorizeInstitute", "revokeInstitute"}
BucketOps == {"fetchAuthorizedProviders", "fetchPendingProviders"}

\* the registered addresses whose role is provider, whatever its letter case
RegisteredProviders ==
    {u.address : u \in {r \in Range(registry) : r.role \in {"provider", "Provider"}}}

BucketAddresses(bucket) == {u.address : u \in Range(bucket.list)}

\* C1. Authorization gate: after authorizeInstitute or revokeInstitute invoked
\* with an active account that is not the ledger's recorded owner, the
\* authorization list is what it was before the call, for every address.
C1_AuthorizationGate ==
    (last.op \in SetAuthorizationOps /\ ~last.accountIsOwner)
        => authorizedInstitutes = last.authBefore

\* C1 witness: a non-owner account is turned away by the owner comparison while
\* the wallet's signer is the owner, whose transaction the ledger would accept.
C1_Witness ==
    /\ last.op = "authorizeInstitute"
    /\ ~last.accountIsOwner
    /\ account # Null
    /\ signer = owner
    /\ last.result = "NotOwner"
    /\ last.target \notin authorizedInstitutes

\* C19. The owner pre-check precedes the write: authorizeInstitute and
\* revokeInstitute submit a transaction only after the owner() read was
\* answered and the owner compared equal to the active account, letter case
\* aside; when the two differ the call fails with NotOwner and submits no
\* transaction.
C19_PrecheckBeforeWrite ==
    last.op \in SetAuthorizationOps
        => /\ last.txs > 0 => (last.ownerRead /\ last.accountIsOwner)
           /\ (last.ownerRead /\ ~last.accountIsOwner)
                  => (last.result = "NotOwner" /\ last.txs = 0)
           /\ (last.ownerRead /\ last.accountIsOwner) => last.result # "NotOwner"

\* C19 witness: revokeInstitute by an account that is not the owner, with the
\* owner's signer in the wallet: the owner was read, the call failed with
\* NotOwner and no transaction went out.
C19_Witness ==
    /\ last.op = "revokeInstitute"
    /\ last.ownerRead
    /\ account = "0xaa"
    /\ signer = "0xOwner"
    /\ last.result = "NotOwner"
    /\ last.txs = 0

\* C6. Exactly one bucket: once the authorized bucket and the pending bucket
\* have both been computed from their authorization reads, every registered
\* provider address is in one of them and not in the other.
C6_ExactlyOneBucket ==
    (/\ authorizedBucket.status = "ok" /\ authorizedBucket.read
     /\ pendingBucket.status = "ok" /\ pendingBucket.read)
        => \A a \in RegisteredProviders :
              (a \in BucketAddresses(authorizedBucket))
                  # (a \in BucketAddresses(pendingBucket))

\* C7. Tolerated read failure: when the authorization read of some provider
\* address fails, the classification still returns; the failing addresses are
\* in the returned bucket not at all and every other provider is classified
\* by its authorization.
C7_ToleratesReadFailure ==
    (/\ last.op \in BucketOps
     /\ last.read
     /\ last.failing \cap RegisteredProviders # {})
        => /\ last.result = "ok"
           /\ {u.address : u \in Range(last.list)} =
                 {a \in RegisteredProviders \ last.failing :
                    (a \in authorizedInstitutes) = (last.op = "fetchAuthorizedProviders")}

(***************************************************************************)
(* SpecIssue: the request -> approve / cancel workflow and the listing of  *)
(* an institute's pending requests.                                        *)
(***************************************************************************)
IssueRegistry ==
    <<User("0xAA", "Provider", "QmProvider"), User("0xBB", "student", "QmStudentS100")>>

InitIssue ==
    /\ InitCommon
    /\ account = "0xBB"
    /\ signer = "0xBB"
    /\ registry = IssueRegistry
    /\ cancelDeletes \in BOOLEAN
    /\ storedAccount = account

NextIssue ==
    \/ \E a \in {"0xaa", "0xBB"} : AccountsChanged(a, TRUE)
    \/ \E p \in {"0xAA", "0xcc"}, regReadOk \in BOOLEAN, tx \in TxOutcomes :
          RequestCertificateIssuance(p, "Degree", "please", regReadOk, tx)
    \/ \E id \in RequestIds, tx \in TxOutcomes :
          ApproveCertificateRequest(id, "Diploma", "ipfs://Qm123", "Institute", tx)
    \/ \E id \in RequestIds, tx \in TxOutcomes :
          CancelCertificateRequest(id, tx)
    \/ \E countReadOk \in BOOLEAN, failing \in SUBSET RequestIds :
          FetchProviderCertificateRequests(countReadOk, failing)

SpecIssue == InitIssue /\ [][NextIssue]_vars

(***************************************************************************)
(* Properties of the issuance workflow (SpecIssue).                        *)
(***************************************************************************)
\* the ids a correct listing for the active account returns, among `ids`:
\* the institute is the account's address and the request is not approved
PendingFor(ids) ==
    {id \in ids : /\ ReadCertificateRequest(id).institute = Canon(account)
                  /\ ~ReadCertificateRequest(id).approved}

\* the listing returned the requests `ids`, each once, in id order, each with
\* the fields the ledger holds for it
ListingIs(ids) ==
    /\ {r.id : r \in Range(last.list)} = ids
    /\ Len(last.list) = Cardinality(ids)
    /\ \A i \in DOMAIN last.list :
          /\ last.list[i] = [id |-> last.list[i].id]
                               @@ ReadCertificateRequest(last.list[i].id)
          /\ \A j \in DOMAIN last.list : i < j => last.list[i].id < last.list[j].id

\* C2. Approval terminality: from a state in which request id is approved,
\* every step leaves it approved, and no step is a cancel(id) that succeeds.
C2_ApprovalTerminal ==
    [][\A id \in RequestIds :
          ReadCertificateRequest(id).approved
              => /\ ReadCertificateRequest(id).approved'
                 /\ ~(/\ last'.op = "cancelCertificateRequest"
                      /\ last'.id = id
                      /\ last'.result = "ok")]_vars

\* C2 witness: the institute named on an approved request has tried to cancel
\* it, the transaction went out, and the call failed.
C2_Witness ==
    /\ last.op = "cancelCertificateRequest"
    /\ last.result = "TransactionFailed"
    /\ last.txs = 1
    /\ ReadCertificateRequest(last.id).approved
    /\ ReadCertificateRequest(last.id).institute = signer

\* C8. Partial-failure isolation: when the reads of some of the ids
\* 1..requestCount throw, the listing still completes with exactly the
\* matching pending requests among the ids whose read succeeded.
C8_PartialFailureIsolation ==
    (/\ last.op = "fetchProviderCertificateRequests"
     /\ last.counted
     /\ last.failing # {})
        => /\ last.stage = "scanned"
           /\ ListingIs(PendingFor((1..requestCounter) \ last.failing))

\* C8 witness: one read threw, for a request that would have been listed, and
\* another request was still returned.
C8_Witness ==
    /\ last.op = "fetchProviderCertificateRequests"
    /\ last.counted
    /\ PendingFor(last.failing) # {}
    /\ last.list # <<>>

\* C9. The listing is exact: when every read succeeds, the listing is exactly
\* the requests with id in 1..requestCount whose institute is the account's
\* address, in whatever letter case, and whose approved flag is false.
C9_ListingExact ==
    (/\ last.op = "fetchProviderCertificateRequests"
     /\ last.counted
     /\ last.failing = {})
        => /\ last.stage = "scanned"
           /\ ListingIs(PendingFor(1..requestCounter))

\* C9 witness: with a lower-case account, the listing returned one request and
\* left out another, which is approved or names another institute.
C9_Witness ==
    /\ last.op = "fetchProviderCertificateRequests"
    /\ last.counted
    /\ last.failing = {}
    /\ account = "0xaa"
    /\ Len(last.list) = 1
    /\ \E id \in 1..requestCounter :
          \/ /\ ReadCertificateRequest(id).institute = "0xAA"
             /\ ReadCertificateRequest(id).approved
          \/ ReadCertificateRequest(id).institute = "0xCC"

\* where request id stands on the ledger
RequestState(id) ==
    IF id \notin 1..requestCounter THEN "none"
    ELSE IF certificateRequests[id].approved THEN "Approved"
    ELSE IF certificateRequests[id].cancelled
            \/ certificateRequests[id].institute = ZeroAddress THEN "Cancelled"
    ELSE "Pending"

RequestTransitions ==
    {<<"none", "none">>, <<"none", "Pending">>, <<"Pending", "Pending">>,
     <<"Pending", "Approved">>, <<"Pending", "Cancelled">>,
     <<"Approved", "Approved">>, <<"Cancelled", "Cancelled">>}

\* C16. Request state machine: every request goes (none) -> Pending ->
\* Approved or Cancelled and no other way, so a cancelled request is never
\* approved; a step that cancels a request leaves the certificates as they
\* were, and a certificate is minted only by a step that approves a pending
\* request; ids are assigned 1, 2, 3, ... from the request counter, which
\* never decreases, so no id is assigned twice.
C16_RequestStateMachine ==
    [][/\ \A id \in RequestIds :
             /\ <<RequestState(id), RequestState(id)'>> \in RequestTransitions
             /\ (RequestState(id) = "Pending" /\ RequestState(id)' = "Cancelled")
                    => certificates' = certificates
             /\ (RequestState(id) = "none" /\ RequestState(id)' = "Pending")
                    => (id = requestCounter + 1 /\ requestCounter' = id)
             /\ RequestState(id) # "none"
                    => ReadCertificateRequest(id).student' \in
                          {ReadCertificateRequest(id).student, ZeroAddress}
       /\ requestCounter' \in {requestCounter, requestCounter + 1}
       /\ certificates' # certificates
              => \E id \in RequestIds :
                    /\ RequestState(id) = "Pending" /\ RequestState(id)' = "Approved"
                    /\ certificates' = Append(certificates, certificates'[Len(certificates')])
                    /\ certificates'[Len(certificates')].request = id]_vars

\* C16 witness: the institute named on a cancelled request has tried to
\* approve it; the transaction went out and failed, and the request's student
\* has no certificate from it.
C16_Witness ==
    /\ last.op = "approveCertificateRequest"
    /\ last.txs = 1
    /\ last.result = "TransactionFailed"
    /\ RequestState(last.id) = "Cancelled"
    /\ signer = "0xAA"
    /\ \A c \in Range(certificates) : c.request # last.id

\* C10. requestIssuance requires a registered student: a call by an account
\* that is not registered with role student submits no requestCertificate
\* transaction.
C10_RequiresRegisteredStudent ==
    (/\ last.op = "requestCertificateIssuance"
     /\ ~(last.callerRegistered /\ ToLowerCase(last.callerRole) = "student"))
        => last.txs = 0

(***************************************************************************)
(* SpecRegister: registration of the wallet's accounts.                    *)
(***************************************************************************)
InitRegister ==
    /\ InitCommon
    /\ account = "0xBB"
    /\ signer = "0xBB"
    /\ registry = <<>>
    /\ cancelDeletes = TRUE
    /\ storedAccount = account

\* hasData: the profile of the chosen role was passed
NextRegister ==
    \/ \E a \in {"0xaa", "0xBB"} : AccountsChanged(a, TRUE)
    \/ \E role \in {"student", "provider"}, hasData \in BOOLEAN,
          doc \in UploadOutcomes, json \in UploadOutcomes, tx \in TxOutcomes,
          refreshOk \in BOOLEAN :
          RegisterUser(role, hasData, "S100", hasData, doc, json, tx, refreshOk)

SpecRegister == InitRegister /\ [][NextRegister]_vars

\* C3. No partial registration: when the supporting-document upload or the
\* metadata upload of a registerUser call fails or returns no content
\* identifier, the call ends with an error and submits no registerUser
\* transaction.
C3_NoPartialRegistration ==
    (/\ last.op = "registerUser"
     /\ (last.doc \in {"throws", "nocid"} \/ last.json \in {"throws", "nocid"}))
        => (last.result # "ok" /\ last.txs = 0)

\* C12. Registration round trip: after a registerUser call that succeeded, the
\* registry's record of the caller holds the role passed and a metadata hash
\* under which the content store holds exactly the metadata object the call
\* uploaded.
C12_RegistrationRoundTrip ==
    (last.op = "registerUser" /\ last.result = "ok")
        => /\ IsUserRegistered(signer)
           /\ GetUser(signer).role = last.role
           /\ GetUser(signer).metadataHash \in ipfs
           /\ BlobOf(GetUser(signer).metadataHash) = last.metadata

\* C12 witness: a provider registered with its supporting document, and the
\* registry points at the provider metadata that names the document.
C12_Witness ==
    /\ last.op = "registerUser"
    /\ last.result = "ok"
    /\ last.role = "provider"
    /\ last.doc = "ok"
    /\ GetUser(signer).metadataHash = "QmProvider"
    /\ BlobOf("QmProvider").documentCid = DocumentCid

\* C18. Cached identity recomputed after register: when registerUser has
\* returned without error, userData shows registered = true and the role the
\* call wrote.
C18_RefreshedAfterRegister ==
    (last.op = "registerUser" /\ last.result = "ok")
        => userData = [isNull |-> FALSE, role |-> last.role, registered |-> TRUE]

(***************************************************************************)
(* SpecGet: the content get paths, over a ledger with two registered users *)
(* and two certificates minted to 0xBB.                                    *)
(***************************************************************************)
GetRegistry ==
    <<User("0xAA", "provider", "QmProvider"), User("0xBB", "student", "QmStudentS100")>>

Minted(id, uri) ==
    [id |-> id, name |-> "Degree", institute |-> "Institute",
     certificateType |-> "Diploma", student |-> "0xBB", tokenURI |-> uri,
     request |-> id]

InitGet ==
    /\ provider = TRUE
    /\ userRegistryAddress = "0xRegistry"
    /\ certificateNFTAddress = "0xCertificateNFT"
    /\ owner = "0xOwner"
    /\ authorizedInstitutes = {"0xAA"}
    /\ requestCounter = 0
    /\ certificateRequests = NoRequests
    /\ certificates = <<Minted(1, "ipfs://Qm123"), Minted(2, "ipfs://Qm456")>>
    /\ authorizedBucket = NoBucket
    /\ pendingBucket = NoBucket
    /\ userData = NullUserData
    /\ loading = FALSE
    /\ ipfs = {"QmProvider", "QmStudentS100", "Qm123", "Qm456"}
    /\ inflight = NoFetch
    /\ verified = FALSE
    /\ verifiedFor = Null
    /\ refreshes = {}
    /\ signIns = {}
    /\ last = NoOp
    /\ account \in {Null, "0xBB"}
    /\ signer \in {Null, "0xBB"}
    /\ registry = GetRegistry
    /\ cancelDeletes = TRUE
    /\ storedAccount = account

ResponsePairs == GatewayResponses \X GatewayResponses

\* what the gateways answer for the certificates of one listing
ListResponses ==
    [{1, 2} -> {<<"throws", "throws">>, <<"http500", "ok">>, <<"badjson", "ok">>,
                <<"http404json", "http404json">>, <<"ok", "ok">>}]

NextGet ==
    \/ \E a \in {"0xBB"}, h \in {"", "QmStudentS100"}, r \in ResponsePairs :
          FetchStudentMetadata(a, h, r[1], r[2])
    \/ \E a \in {"0xAA", "0xCC"}, regReadOk \in BOOLEAN, r \in ResponsePairs :
          FetchProviderMetadata(a, regReadOk, r[1], r[2])
    \/ \E a \in {"0xBB", "0xCC"}, regReadOk \in BOOLEAN, r \in ResponsePairs :
          FetchStudentProfile(a, regReadOk, r[1], r[2])
    \/ \E a \in {"0xbb"}, idsReadOk \in BOOLEAN, failing \in {{}, {2}},
          resp \in ListResponses :
          GetCertificatesByAddress(a, idsReadOk, failing, resp)
    \/ \E a \in {"0xbb"}, idsReadOk \in BOOLEAN, failing \in {{}, {2}},
          resp \in [{1, 2} -> {"unused"} \X GatewayResponses] :
          HandleSearch(a, idsReadOk, failing, resp)
    \/ \E a \in {"0xaa", "0xBB"}, readOk \in BOOLEAN : CheckInstituteAuthorization(a, readOk)

SpecGet == InitGet /\ [][NextGet]_vars

GetOps == {"fetchStudentMetadata", "fetchProviderMetadata", "fetchStudentProfile",
           "getCertificatesByAddress", "handleSearch"}

\* the gets of the last operation, when it is a get path
LastGets == IF last.op \in GetOps THEN Range(last.gets) ELSE {}

\* C4. Fallback on any failure: in every get, when the first gateway fails by a
\* rejected fetch or by a non-success response, the next gateway is attempted,
\* and a get reports failure only after both configured gateways were tried.
C4_FallbackOnAnyFailure ==
    \A g \in LastGets :
        /\ g.r1 \in {"throws", "http500"} => g.attempts = <<Pinata, IpfsIo>>
        /\ g.value = NoPayload => g.attempts = <<Pinata, IpfsIo>>

\* C5. Fallback correctness: in every get over the two gateways, when the first
\* answers HTTP 500 and the second answers valid JSON, the get returns the
\* second gateway's payload and the operation reports no error.
C5_FallbackCorrect ==
    \A g \in LastGets :
        (g.r1 = "http500" /\ g.r2 = "ok")
            => (g.value = Payload(IpfsIo, g.cid) /\ last.result = "ok")

\* C5 witness: a certificate listing in which one certificate's metadata came
\* from the second gateway after the first answered HTTP 500.
C5_Witness ==
    /\ last.op = "getCertificatesByAddress"
    /\ \E g \in LastGets :
          /\ g.r1 = "http500" /\ g.r2 = "ok"
          /\ g.value = Payload(IpfsIo, "Qm456")
          /\ g.attempts = <<Pinata, IpfsIo>>

(***************************************************************************)
(* SpecSearch: the read-only lookups (student by external id, owner check, *)
(* an institute's pending requests) over a ledger with three users, in     *)
(* every enumeration order.                                                *)
(***************************************************************************)
SearchUsers ==
    {User("0xAA", "Provider", "QmProvider"), User("0xBB", "Student", "QmStudentS100"),
     User("0xCC", "student", "QmStudentS200")}

\* every order in which the registry can enumerate the three users
SearchRegistries ==
    {r \in [1..3 -> SearchUsers] : \A i, j \in 1..3 : r[i] = r[j] => i = j}

InitSearch ==
    /\ InitCommon
    /\ account = "0xaa"
    /\ signer = "0xAA"
    /\ registry \in SearchRegistries
    /\ cancelDeletes = TRUE
    /\ storedAccount = account

SearchResponses == [{"0xAA", "0xBB", "0xCC"} -> {<<"throws", "throws">>, <<"http500", "ok">>, <<"ok", "ok">>}]

NextSearch ==
    \/ \E id \in {"S100", "s100", "s200", "S999"}, regReadOk \in BOOLEAN, resp \in SearchResponses :
          GetStudentByStudentId(id, regReadOk, resp)
    \/ \E a \in {"0xowner", "0xAA"}, ownerReadOk \in BOOLEAN : CheckIsOwner(a, ownerReadOk)
    \/ \E countReadOk \in BOOLEAN : FetchProviderCertificateRequests(countReadOk, {})

SpecSearch == InitSearch /\ [][NextSearch]_vars

SwallowingOps == {"fetchProviderCertificateRequests", "getStudentByStudentId", "checkIsOwner"}

\* C11. No silent swallowing: a failed read that is not a per-item degradation
\* (the requestCounter read of the pending listing, the identity listing of
\* the student search, the owner() read of checkIsOwner) is never answered by
\* the handler's catch with a normal return (empty list, null, false).
C11_NoSilentSwallowing ==
    last.op \in SwallowingOps => last.stage # "caught"

(***************************************************************************)
(* SpecScenario: the whole workflow, from an unauthorized institute to a   *)
(* certificate in the student's list: the wallet moves between the owner,  *)
(* the institute 0xAA and the student 0xBB.                                *)
(***************************************************************************)
InitScenario ==
    /\ InitCommon
    /\ account = "0xBB"
    /\ signer = "0xBB"
    /\ registry = IssueRegistry
    /\ cancelDeletes = TRUE
    /\ storedAccount = account

\* the tokenURI the institute passes when it approves request id
ScenarioURI(id) == IF id = 1 THEN "ipfs://Qm123" ELSE "ipfs://Qm456"

ScenarioResponses == [RequestIds -> {<<"throws", "throws">>, <<"http500", "ok">>}]

NextScenario ==
    \/ \E a \in {"0xOwner", "0xAA", "0xBB"} : AccountsChanged(a, TRUE)
    \/ \E tx \in TxOutcomes :
          RequestCertificateIssuance("0xAA", "Degree", "please", TRUE, tx)
    \/ \E ownerReadOk \in BOOLEAN, tx \in TxOutcomes :
          AuthorizeInstitute("0xAA", ownerReadOk, tx)
    \/ \E id \in RequestIds, tx \in TxOutcomes :
          ApproveCertificateRequest(id, "Diploma", ScenarioURI(id), "Institute", tx)
    \/ \E a \in {"0xbb", "0xAA"}, idsReadOk \in BOOLEAN, resp \in ScenarioResponses :
          GetCertificatesByAddress(a, idsReadOk, {}, resp)

SpecScenario == InitScenario /\ [][NextScenario]_vars

\* C13. End to end: once the institute named on a request has approved it with
\* tokenURI U (after the owner authorized the institute), the request reads
\* approved on the ledger, and every successful getCertificatesByAddress of
\* the request's student returns a certificate whose tokenURI is U.
C13_EndToEnd ==
    /\ (last.op = "approveCertificateRequest" /\ last.result = "ok")
          => /\ ReadCertificateRequest(last.id).approved
             /\ \E c \in Range(GetStudentCertificates(ReadCertificateRequest(last.id).student)) :
                   c.tokenURI = last.tokenURI
    /\ \A id \in RequestIds :
          (/\ ReadCertificateRequest(id).approved
           /\ last.op = "getCertificatesByAddress"
           /\ last.result = "ok"
           /\ Canon(last.address) = ReadCertificateRequest(id).student)
              => \E i \in DOMAIN last.list :
                    /\ last.list[i].tokenURI = ScenarioURI(id)
                    /\ last.list[i].student = ReadCertificateRequest(id).student

\* C13 witness: 0xAA was authorized by the owner, request 1 of student 0xBB is
\* approved, and the student's certificate list holds the certificate with
\* the tokenURI of that approval.
C13_Witness ==
    /\ "0xAA" \in authorizedInstitutes
    /\ requestCounter >= 1
    /\ ReadCertificateRequest(1).approved
    /\ ReadCertificateRequest(1).student = "0xBB"
    /\ ReadCertificateRequest(1).institute = "0xAA"
    /\ last.op = "getCertificatesByAddress"
    /\ last.result = "ok"
    /\ last.address = "0xbb"
    /\ \E i \in DOMAIN last.list : last.list[i].tokenURI = "ipfs://Qm123"

\* C21. Reads never require a signer: with a provider and configured
\* addresses, a read whose ledger read is answered produces its result also
\* when no signer can be obtained: checkInstituteAuthorization returns the
\* address's authorization and fetchProviderMetadata returns without error.
C21_ReadsNeedNoSigner ==
    /\ (last.op = "checkInstituteAuthorization" /\ provider /\ last.readOk)
          => /\ last.result = "ok"
             /\ last.value = (Canon(last.address) \in authorizedInstitutes)
    /\ (last.op = "fetchProviderMetadata" /\ provider /\ last.readOk)
          => last.result = "ok"

ListOps == {"getCertificatesByAddress", "handleSearch"}

\* every gateway the get path is configured with answered with a failure
AllGatewaysFailed(g) ==
    /\ g.r1 \in {"unused"} \cup (GatewayResponses \ {"ok"})
    /\ g.r2 \in GatewayResponses \ {"ok"}

\* C14. Per-item degradation of the certificate list: a list that is returned
\* has one certificate per owned token id, each with the ledger's core fields
\* and tokenURI; a certificate whose metadata fetch failed on all gateways has
\* metadata = null, and every other certificate has its own metadata.
C14_DegradesPerItem ==
    (last.op \in ListOps /\ last.result = "ok")
        => LET owned == GetStudentCertificates(last.address) IN
           /\ Len(last.list) = Len(owned)
           /\ \A i \in DOMAIN last.list :
                 /\ last.list[i] = CertificateItem(owned[i], [value |-> last.list[i].metadata])
                 /\ AllGatewaysFailed(last.gets[i]) => last.list[i].metadata = NoPayload
                 /\ ~AllGatewaysFailed(last.gets[i])
                       => last.list[i].metadata.cid = StripIpfs(owned[i].tokenURI)

\* the registered students whose metadata the gateways resolved in the last
\* search and whose studentId is the searched one, letter case aside
ResolvedMatches ==
    {u.address : u \in {r \in Range(registry) :
        /\ r.role \in {"student", "Student"}
        /\ "ok" \in {last.resp[r.address][1], last.resp[r.address][2]}
        /\ BlobOf(r.metadataHash).studentId # ""
        /\ ToLowerCase(BlobOf(r.metadataHash).studentId) = ToLowerCase(last.studentId)}}

\* C15. getStudentByStudentId returns the address of a registered student
\* whose resolved metadata has the searched studentId, compared without
\* regard to letter case, in every enumeration order of the registry; it
\* returns null only when no registered student's resolvable metadata has
\* that studentId.
C15_FindStudent ==
    last.op = "getStudentByStudentId"
        => /\ last.result # Null => last.result \in ResolvedMatches
           /\ last.result = Null => ResolvedMatches = {}

(***************************************************************************)
(* SpecHang: gets of student metadata over gateways of which some never    *)
(* answer.  A gateway that does answer answers eventually (weak fairness   *)
(* on GatewayAnswers); nothing obliges a caller to start a get.            *)
(***************************************************************************)
InitHang ==
    /\ InitCommon
    /\ account \in {Null, "0xBB"}
    /\ signer \in {Null, "0xBB"}
    /\ registry = GetRegistry
    /\ cancelDeletes = TRUE
    /\ storedAccount = account

NextHang ==
    \/ \E h \in {"", "QmStudentS100", "QmStudentS200", "QmProvider"}, hung \in SUBSET {Pinata, IpfsIo} :
          StartFetchStudentMetadata(h, hung)
    \/ \E r \in GatewayResponses : GatewayAnswers(r)

SpecHang ==
    InitHang /\ [][NextHang]_vars /\ WF_vars(\E r \in GatewayResponses : GatewayAnswers(r))

\* C17. A hung gateway does not prevent fallback: a get whose first gateway
\* never answers still comes to attempt the next gateway, and comes to return.
C17_HungGatewayFallsBack ==
    (inflight.pc = Pinata /\ Pinata \in inflight.hung)
        ~> (inflight.pc = "done" /\ inflight.attempts = <<Pinata, IpfsIo>>)

(***************************************************************************)
(* SpecConfig: the operations of a connected institute account when one or *)
(* both contract addresses are not configured.                             *)
(***************************************************************************)
InitConfig ==
    /\ provider = TRUE
    /\ userRegistryAddress \in {"", "0xRegistry"}
    /\ certificateNFTAddress \in {"", "0xCertificateNFT"}
    /\ owner = "0xOwner"
    /\ authorizedInstitutes = {}
    /\ requestCounter = 0
    /\ certificateRequests = NoRequests
    /\ certificates = <<>>
    /\ authorizedBucket = NoBucket
    /\ pendingBucket = NoBucket
    /\ userData = NullUserData
    /\ loading = FALSE
    /\ ipfs = {}
    /\ inflight = NoFetch
    /\ verified = FALSE
    /\ verifiedFor = Null
    /\ refreshes = {}
    /\ signIns = {}
    /\ last = NoOp
    /\ account = "0xaa"
    /\ signer \in {Null, "0xAA"}
    /\ registry = IssueRegistry
    /\ cancelDeletes = TRUE
    /\ storedAccount = account

NextConfig ==
    \/ \E tx \in TxOutcomes :
          RequestCertificateIssuance("0xAA", "Degree", "please", TRUE, tx)
    \/ \E id \in RequestIds, tx \in TxOutcomes :
          ApproveCertificateRequest(id, "Diploma", "ipfs://Qm123", "Institute", tx)
    \/ \E id \in RequestIds, tx \in TxOutcomes : CancelCertificateRequest(id, tx)
    \/ \E ownerReadOk \in BOOLEAN, tx \in TxOutcomes :
          AuthorizeInstitute("0xAA", ownerReadOk, tx)
    \/ \E ownerReadOk \in BOOLEAN, tx \in TxOutcomes :
          RevokeInstitute("0xAA", ownerReadOk, tx)
    \/ \E json \in UploadOutcomes, tx \in TxOutcomes :
          RegisterUser("student", TRUE, "S100", FALSE, "ok", json, tx, TRUE)
    \/ \E ownerReadOk \in BOOLEAN : CheckIsOwner("0xaa", ownerReadOk)

SpecConfig == InitConfig /\ [][NextConfig]_vars

LedgerWriteOps ==
    {"requestCertificateIssuance", "approveCertificateRequest",
     "cancelCertificateRequest", "authorizeInstitute", "revokeInstitute"}

\* C20. Unconfigured contract addresses: a write operation of a connected,
\* signing account ends with ContractUnavailable, and with no transaction,
\* when the address of the contract it uses is empty (the certificate
\* contract for the issuance and authorization operations, the registry for
\* registerUser); checkIsOwner answers false without a read.
C20_UnconfiguredReported ==
    /\ (/\ last.op \in LedgerWriteOps
        /\ certificateNFTAddress = ""
        /\ signer # Null)
          => (last.result = "ContractUnavailable" /\ last.txs = 0)
    /\ (/\ last.op = "registerUser"
        /\ userRegistryAddress = ""
        /\ signer # Null)
          => (last.result = "ContractUnavailable" /\ last.txs = 0)
    /\ (last.op = "checkIsOwner" /\ certificateNFTAddress = "")
          => (last.stage = "empty" /\ ~last.result)

(***************************************************************************)
(* SpecWrites: the six write handlers under every state of the wallet:     *)
(* with and without a provider, an account and a signer.                   *)
(***************************************************************************)
InitWrites ==
    /\ InitCommon
    /\ account \in {Null, "0xowner", "0xaa"}
    /\ signer \in {Null, "0xOwner", "0xAA"}
    /\ registry = IssueRegistry
    /\ cancelDeletes = TRUE
    /\ storedAccount = account

\* the same, in a browser without a wallet extension: no provider, no signer
InitWritesNoProvider ==
    /\ provider = FALSE
    /\ userRegistryAddress = "0xRegistry"
    /\ certificateNFTAddress = "0xCertificateNFT"
    /\ owner = "0xOwner"
    /\ authorizedInstitutes = {}
    /\ requestCounter = 0
    /\ certificateRequests = NoRequests
    /\ certificates = <<>>
    /\ authorizedBucket = NoBucket
    /\ pendingBucket = NoBucket
    /\ userData = NullUserData
    /\ loading = FALSE
    /\ ipfs = {}
    /\ inflight = NoFetch
    /\ verified = FALSE
    /\ verifiedFor = Null
    /\ refreshes = {}
    /\ signIns = {}
    /\ last = NoOp
    /\ account \in {Null, "0xaa"}
    /\ signer = Null
    /\ registry = IssueRegistry
    /\ cancelDeletes = TRUE
    /\ storedAccount = account

NextWrites ==
    \/ \E json \in {"throws", "ok"}, tx \in TxOutcomes :
          RegisterUser("student", TRUE, "S100", FALSE, "ok", json, tx, TRUE)
    \/ \E tx \in TxOutcomes :
          RequestCertificateIssuance("0xAA", "Degree", "please", TRUE, tx)
    \/ \E id \in RequestIds, tx \in TxOutcomes :
          ApproveCertificateRequest(id, "Diploma", "ipfs://Qm123", "Institute", tx)
    \/ \E id \in RequestIds, tx \in TxOutcomes : CancelCertificateRequest(id, tx)
    \/ \E tx \in TxOutcomes : AuthorizeInstitute("0xAA", TRUE, tx)
    \/ \E tx \in TxOutcomes : RevokeInstitute("0xAA", TRUE, tx)

SpecWrites == (InitWrites \/ InitWritesNoProvider) /\ [][NextWrites]_vars

WriteOps ==
    {"registerUser", "requestCertificateIssuance", "approveCertificateRequest",
     "cancelCertificateRequest", "authorizeInstitute", "revokeInstitute"}

\* C22. Wallet precondition of writes: a write handler called without a
\* provider or without an active account ends with WalletNotConnected, has
\* sent no transaction and, for registerUser, has uploaded nothing.
C22_WalletPrecondition ==
    (last.op \in WriteOps /\ (~provider \/ account = Null))
        => /\ last.result = "WalletNotConnected"
           /\ last.txs = 0
           /\ last.op = "registerUser" => (last.doc = "skipped" /\ last.json = "skipped")
           /\ ipfs = {}

\* C22 witness: approveCertificateRequest without an active account, while the
\* wallet does have a signer, was turned away before any transaction.
C22_Witness ==
    /\ last.op = "approveCertificateRequest"
    /\ provider
    /\ account = Null
    /\ signer = "0xAA"
    /\ last.result = "WalletNotConnected"
    /\ last.txs = 0

\* C23. Ledger writes are never retried: a call of a write handler sends at
\* most one transaction, and when the transaction is rejected or its
\* confirmation fails the call ends with the error.
C23_NoAutoRetry ==
    last.op \in WriteOps
        => /\ last.txs <= 1
           /\ last.tx \in {"rejected", "unconfirmed"} => last.result = "TransactionFailed"

\* C23 witness: the owner's authorizeInstitute went out once, its confirmation
\* failed, the call ended with the error, and the ledger has executed it.
C23_Witness ==
    /\ last.op = "authorizeInstitute"
    /\ last.tx = "unconfirmed"
    /\ last.txs = 1
    /\ last.result = "TransactionFailed"
    /\ last.target \in authorizedInstitutes

(***************************************************************************)
(* SpecWallet: the wallet's events, re-mounts and the identity refreshes   *)
(* they start, over a registry in which 0xAA is a provider and 0xOwner is  *)
(* not registered.                                                         *)
(***************************************************************************)
\* a first visit: nothing in local storage, the wallet not yet connected
InitWallet ==
    /\ InitCommon
    /\ account = Null
    /\ signer \in {Null, "0xAA"}
    /\ registry = IssueRegistry
    /\ cancelDeletes = TRUE
    /\ storedAccount = account

WalletAccounts == {"0xOwner", "0xAA"}

NextWallet ==
    \/ \E a \in WalletAccounts : WalletAccountsChanged(a)
    \/ \E a \in WalletAccounts : Connect(a)
    \/ Disconnect
    \/ ChainChanged
    \/ \E w \in WalletAccounts \cup {Null} : Mount(w)
    \/ \E a \in WalletAccounts, readOk \in BOOLEAN : FetchUserDataSettles(a, readOk)

SpecWallet == InitWallet /\ [][NextWallet]_vars

\* C24. The cached identity follows the active account: when no identity
\* refresh is in flight and userData is set, it holds the role and the
\* registration status of the active account.
C24_IdentityFollowsAccount ==
    (refreshes = {} /\ account # Null /\ ~userData.isNull)
        => userData = UserDataOf(account, TRUE)

\* C26. No cached identity without an account: when account is null and no
\* identity refresh is in flight, userData is null.
C26_NoIdentityWithoutAccount ==
    (account = Null /\ refreshes = {}) => userData = NullUserData

\* C28. Disconnect is durable: an account that is null becomes non-null only
\* by a connect or an accountsChanged event, also across a re-mount.
C28_DisconnectDurable ==
    [][(account = Null /\ account' # Null)
          => last'.op \in {"connect", "accountsChanged"}]_vars

(***************************************************************************)
(* SpecSignIn: sign-in with Ethereum among the wallet's events.            *)
(***************************************************************************)
InitSignIn ==
    /\ InitCommon
    /\ account = "0xAA"
    /\ signer \in {Null, "0xAA"}
    /\ registry = IssueRegistry
    /\ cancelDeletes = TRUE
    /\ storedAccount = account

NextSignIn ==
    \/ \E a \in WalletAccounts : WalletAccountsChanged(a)
    \/ Disconnect
    \/ ChainChanged
    \/ SignInWithEthereum
    \/ \E a \in WalletAccounts, answer \in {"throws", "invalid", "valid"} :
          SignInSettles(a, answer)

SpecSignIn == InitSignIn /\ [][NextSignIn]_vars

\* C25. The verified flag belongs to the current account: verified = true
\* implies that account is non-null and is the account whose signature
\* signInWithEthereum validated.
C25_VerifiedIsCurrentAccount ==
    verified => (account # Null /\ Canon(account) = Canon(verifiedFor))

(***************************************************************************)
(* SpecRestore: the owner's authorization writes after connects and        *)
(* re-mounts, between which the wallet's selected account may change.      *)
(***************************************************************************)
InitRestore ==
    /\ InitCommon
    /\ account = Null
    /\ signer \in {Null, "0xOwner"}
    /\ registry = IssueRegistry
    /\ cancelDeletes = TRUE
    /\ storedAccount = account

NextRestore ==
    \/ \E a \in WalletAccounts : WalletAccountsChanged(a)
    \/ \E a \in WalletAccounts : Connect(a)
    \/ \E w \in WalletAccounts \cup {Null} : Mount(w)
    \/ \E tx \in TxOutcomes : AuthorizeInstitute("0xAA", TRUE, tx)
    \/ \E tx \in TxOutcomes : RevokeInstitute("0xAA", TRUE, tx)

SpecRestore == InitRestore /\ [][NextRestore]_vars

\* C27. The pre-checked account is the signing account: whenever a write
\* handler has sent a transaction, the account its checks used is the address
\* of the signer that signed it.
C27_CheckedAccountSigns ==
    (last.op \in WriteOps /\ last.txs > 0)
        => (account # Null /\ Canon(account) = signer)

\* C29. A failed registration leaves the cached identity alone: a registerUser
\* that fails (validation, upload, transaction submission or confirmation)
\* leaves userData and loading as they were and starts no identity refresh.
C29_FailedRegisterFrame ==
    [][(last'.op = "registerUser" /\ last'.result # "ok")
          => /\ userData' = userData
             /\ loading' = loading
             /\ refreshes' = refreshes
             /\ ~last'.refreshed]_vars

C29_Witness ==
    /\ last.op = "registerUser"
    /\ last.result # "ok"
    /\ last.txs = 1
    /\ ~last.refreshed
    /\ ~userData.isNull

====
